---- MODULE Spec2Model ----
(***************************************************************************)
(* A model of relm4-macros: the identifier generator (util.rs), the        *)
(* `widget` attribute macro (lib.rs) and the counter example application   *)
(* (examples/actions.rs).                                                  *)
(***************************************************************************)
EXTENDS Integers, Sequences, FiniteSets, TLC

VARIABLES
    \* ---- identifier generator, sequential use (util.rs) ----
    COUNTER,        \* static COUNTER: AtomicU16
    calls,          \* number of calls of idents_to_snake_case made so far
    remembered,     \* one earlier call, kept for comparison: None or [call, name]
    last,           \* the latest call: None or [call, name]
    \* ---- identifier generator, concurrent use (util.rs) ----
    cCOUNTER,       \* static COUNTER: AtomicU16, shared by the threads
    tpc,            \* thread -> "idle" | "build" | "store"
    tval,           \* thread -> the local `val`
    tidents,        \* thread -> the argument `idents` of the call in progress
    observed,       \* the values of `val` in the order the calls obtained them
    returned,       \* the identifiers returned so far, in order
    \* ---- the `widget` attribute macro (lib.rs) ----
    mpc,            \* the statement of `widget` that runs next
    data,           \* the parsed ItemImpl: its trait reference's last path arguments
    model_types,    \* ModelTypes { model, parent_model }: positions of the arguments
    model_ty,       \* the first generic argument, when it is a type
    widgets,        \* Macros.widgets: the root of the parsed widget tree
    funcs,          \* Funcs: the lifecycle blocks the user supplied
    widget_list,    \* the flattened list of widgets
    next_widget,    \* position of the `for widget in widget_list` loop
    streams,        \* the nine TokenStream2 accumulators
    out,            \* the TokenStream the macro returns
    \* ---- the counter application (examples/actions.rs) ----
    counter,        \* AppModel.counter: u8
    label,          \* the text of the watched gtk::Label
    cycles,         \* update cycles run so far
    net,            \* Increment messages minus Decrement messages so far
    \* ---- a generated component at run time ----
    rtree,          \* the widget tree the component was generated from
    rview,          \* the body of the generated view method
    rpc,            \* "idle" | "view"
    vpos,           \* the statement of the view body that runs next
    applied,        \* the property updates applied in the current (or last) cycle
    queue,          \* messages sent and not yet handled
    sent,           \* messages sent so far
    handled,        \* messages taken from the queue so far
    cyclesDone      \* update cycles completed so far

identVars == <<COUNTER, calls, remembered, last>>
concVars  == <<cCOUNTER, tpc, tval, tidents, observed, returned>>
macroVars == <<mpc, data, model_types, model_ty, widgets, funcs, widget_list,
               next_widget, streams, out>>
appVars == <<counter, label, cycles, net>>
runVars == <<rtree, rview, rpc, vpos, applied, queue, sent, handled, cyclesDone>>
vars == <<identVars, concVars, macroVars, appVars, runVars>>

None == [none |-> TRUE]
Some(x) == [some |-> x]

(***************************************************************************)
(* Bounds of the model.                                                    *)
(***************************************************************************)
MaxRemember == 1       \* only one of the first MaxRemember + 1 calls is remembered
MaxConcCalls == 4      \* calls made in total by the concurrent threads
NumThreads == 2        \* threads expanding macros concurrently
MaxGenerics == 3       \* generic arguments of the trait reference
MaxWidgets == 3        \* widgets of a widget tree
MaxCycles == 257       \* update cycles of the counter application
MaxRunWidgets == 2     \* widgets of a component observed at run time
MaxMsgs == 3           \* messages sent to a component observed at run time

(***************************************************************************)
(* util.rs                                                                 *)
(***************************************************************************)
CounterBits == 16                      \* AtomicU16
CounterModulus == 2 ^ CounterBits

UpperChars == <<"A","B","C","D","E","F","G","H","I","J","K","L","M",
                "N","O","P","Q","R","S","T","U","V","W","X","Y","Z">>
LowerChars == <<"a","b","c","d","e","f","g","h","i","j","k","l","m",
                "n","o","p","q","r","s","t","u","v","w","x","y","z">>
DigitChars == <<"0","1","2","3","4","5","6","7","8","9">>

\* char::to_lowercase on the characters an identifier is made of
to_lowercase_char(c) ==
    IF \E i \in DOMAIN UpperChars : UpperChars[i] = c
    THEN LowerChars[CHOOSE i \in DOMAIN UpperChars : UpperChars[i] = c]
    ELSE c

\* ident.to_string().to_lowercase(): an identifier is a sequence of characters
to_lowercase(ident) == [i \in DOMAIN ident |-> to_lowercase_char(ident[i])]

\* val.to_string(): the decimal digits of an unsigned integer
RECURSIVE to_string(_)
to_string(n) ==
    IF n < 10 THEN <<DigitChars[n + 1]>>
    ELSE to_string(n \div 10) \o <<DigitChars[(n % 10) + 1]>>

\* the loop `for seg in &segements { name.push('_'); name.push_str(seg); }`
RECURSIVE push_segments(_, _)
push_segments(name, segements) ==
    IF segements = <<>> THEN name
    ELSE push_segments(name \o <<"_">> \o Head(segements), Tail(segements))

\* the identifier built from the fragments and the counter value obtained
snake_case_name(idents, val) ==
    LET index_str == to_string(val)
        segements == [i \in DOMAIN idents |-> to_lowercase(idents[i])]
    IN  push_segments(<<>>, segements) \o <<"_">> \o index_str

\* COUNTER.fetch_add(1, Ordering::Relaxed): the new value of the counter
\* (an atomic add wraps around on overflow)
fetch_add(old) == (old + 1) % CounterModulus

\* fragment lists handed to the generator: ancestor names of anonymous widgets
IdBox == <<"B","o","x">>
Idbox == <<"b","o","x">>
IdA1 == <<"a","_","1">>
FragmentLists == { <<>>, <<IdBox>>, <<Idbox, IdA1>> }

(***************************************************************************)
(* Sequential use: one call of idents_to_snake_case per step.              *)
(***************************************************************************)
IdentInit ==
    /\ COUNTER = 0
    /\ calls = 0
    /\ remembered = None
    /\ last = None

\* idents_to_snake_case(idents), the whole function; `calls` counts the calls
\* up to one past the range of the counter
Call(idents) ==
    LET val == COUNTER
    IN  /\ calls <= CounterModulus
        /\ COUNTER' = fetch_add(COUNTER)
        /\ calls' = calls + 1
        /\ last' = [call |-> calls, name |-> snake_case_name(idents, val)]
        /\ \/ UNCHANGED remembered
           \/ /\ remembered = None
              /\ last # None
              /\ last.call <= MaxRemember
              /\ remembered' = last

\* C1: within one process, any two distinct calls of idents_to_snake_case
\* return distinct identifiers, whatever the number of calls made and
\* whatever fragment lists they pass.
C1_NeverCollides ==
    (remembered # None /\ last # None /\ remembered.call # last.call)
        => remembered.name # last.name

(***************************************************************************)
(* Concurrent use: several threads expand macros and call the generator.   *)
(* The fetch_add is one atomic step of a thread; building the name from    *)
(* the thread's own `val` and `idents` is a second, thread-local step.     *)
(***************************************************************************)
Threads == 1 .. NumThreads

ConcInit ==
    /\ cCOUNTER = 0
    /\ tpc = [t \in Threads |-> "idle"]
    /\ tval = [t \in Threads |-> 0]
    /\ tidents = [t \in Threads |-> <<>>]
    /\ observed = <<>>
    /\ returned = <<>>

\* a read of the counter followed by a separate write (not an atomic
\* read-modify-write)
LoadThenStore(t, idents) ==
    \/ /\ tpc[t] = "idle"
       /\ Len(observed) < MaxConcCalls
       /\ tval' = [tval EXCEPT ![t] = cCOUNTER]
       /\ tidents' = [tidents EXCEPT ![t] = idents]
       /\ observed' = Append(observed, cCOUNTER)
       /\ tpc' = [tpc EXCEPT ![t] = "store"]
       /\ UNCHANGED <<cCOUNTER, returned>>
    \/ /\ tpc[t] = "store"
       /\ cCOUNTER' = fetch_add(tval[t])
       /\ tpc' = [tpc EXCEPT ![t] = "build"]
       /\ UNCHANGED <<tval, tidents, observed, returned>>

\* let val = COUNTER.fetch_add(1, Ordering::Relaxed);
FetchAdd(t, idents) ==
    /\ tpc[t] = "idle"
    /\ Len(observed) < MaxConcCalls
    /\ tval' = [tval EXCEPT ![t] = cCOUNTER]
    /\ cCOUNTER' = fetch_add(cCOUNTER)
    /\ tidents' = [tidents EXCEPT ![t] = idents]
    /\ observed' = Append(observed, cCOUNTER)
    /\ tpc' = [tpc EXCEPT ![t] = "build"]
    /\ UNCHANGED returned

\* the rest of the function: index_str, segements, name, Ident::new
BuildName(t) ==
    /\ tpc[t] = "build"
    /\ returned' = Append(returned, snake_case_name(tidents[t], tval[t]))
    /\ tpc' = [tpc EXCEPT ![t] = "idle"]
    /\ UNCHANGED <<cCOUNTER, tval, tidents, observed>>

\* C7: the read-and-increment of the process-wide counter is one atomic step:
\* no two calls, in any interleaving of the threads, observe the same counter
\* value, and no increment is lost: after k calls (below the counter's range)
\* the counter equals k.
C7_AtomicCounter ==
    /\ \A i, j \in DOMAIN observed : i # j => observed[i] # observed[j]
    /\ Len(observed) < CounterModulus => cCOUNTER = Len(observed)
    /\ \A i, j \in DOMAIN returned : i # j => returned[i] # returned[j]

\* two threads are inside the generator at once, each with its own value
C7_Witness ==
    /\ \A t \in Threads : tpc[t] = "build"
    /\ \E t, u \in Threads : t # u /\ tval[t] # tval[u]
    /\ cCOUNTER = Len(observed)
    /\ Len(observed) = MaxConcCalls

(***************************************************************************)
(* lib.rs: the `widget` attribute macro.                                   *)
(***************************************************************************)
Err == [err |-> TRUE]

\* the generic arguments a trait reference can carry
GenericArgumentKinds == {"type", "lifetime"}
GenericArgLists == UNION { [1 .. k -> GenericArgumentKinds] : k \in 0 .. MaxGenerics }

\* segment.arguments of the last segment of the trait path
PathArgumentsSet ==
    { [angle |-> FALSE, args |-> <<>>] }
        \cup { [angle |-> TRUE, args |-> a] : a \in GenericArgLists }

\* one statement (or item) of generated code
Stmt(kind, w, p, c, a) == [stmt |-> kind, widget |-> w, prop |-> p, child |-> c, arg |-> a]

\* the properties a widget declares besides its children, as in
\* examples/actions.rs: plain assignments, watch!, track!, connect_*,
\* component! and connect_component entries
Profiles == <<
    <<"assign", "connect">>,
    <<"assign", "watch", "track">>,
    <<"track", "component", "watch", "connect_component">>
>>

RECURSIVE ReachesRoot(_, _, _)
ReachesRoot(parent, w, fuel) ==
    \/ w = 1
    \/ fuel > 0 /\ ReachesRoot(parent, parent[w], fuel - 1)

\* the widget trees the view! macro can describe: widget 1 is the root
WidgetTreesUpTo(max) ==
    UNION { { [n |-> n, parent |-> p, profile |-> f] :
                p \in { q \in [2 .. n -> 1 .. n] :
                          \A w \in 2 .. n : q[w] # w /\ ReachesRoot(q, w, n) },
                f \in [1 .. n -> DOMAIN Profiles] } :
            n \in 1 .. max }
WidgetTrees == WidgetTreesUpTo(MaxWidgets)

RECURSIVE SetToSeq(_)
SetToSeq(S) ==
    IF S = {} THEN <<>>
    ELSE LET m == CHOOSE x \in S : \A y \in S : x <= y
         IN  <<m>> \o SetToSeq(S \ {m})

\* the children of a widget, in declaration order
Children(tree, w) == SetToSeq({c \in 2 .. tree.n : tree.parent[c] = w})

\* widget.properties: the declared entries, then the nested widgets
Properties(tree, w) ==
    LET own == Profiles[tree.profile[w]]
        kids == Children(tree, w)
    IN  [i \in 1 .. Len(own) |-> [kind |-> own[i], child |-> 0]]
            \o [i \in 1 .. Len(kids) |-> [kind |-> "widget", child |-> kids[i]]]

RECURSIVE get_widget_list_from(_, _, _)
\* Widget::get_widget_list: the widget itself, then the widget lists of its
\* nested widgets, in the order of its properties
get_widget_list(tree, w) ==
    <<w>> \o get_widget_list_from(tree, Properties(tree, w), 1)
get_widget_list_from(tree, props, i) ==
    IF i > Len(props) THEN <<>>
    ELSE (IF props[i].kind = "widget" THEN get_widget_list(tree, props[i].child) ELSE <<>>)
            \o get_widget_list_from(tree, props, i + 1)

RECURSIVE SelectProps(_, _, _, _)
\* the statements a per-widget emitter produces: one for each property of the
\* widget that the emitter handles, in declaration order
SelectProps(tree, w, kinds, i) ==
    LET props == Properties(tree, w)
    IN  IF i > Len(props) THEN <<>>
        ELSE (IF props[i].kind \in kinds
              THEN <<Stmt(props[i].kind, w, i, props[i].child, "")>>
              ELSE <<>>)
                \o SelectProps(tree, w, kinds, i + 1)

\* Widget::return_stream: the struct-initialisation field of the widget
return_stream(tree, w) == <<Stmt("return_field", w, 0, 0, "")>>
\* Widget::property_assign_stream: the one-shot setter calls, and the calls
\* that attach the nested widgets
property_assign_stream(tree, w) == SelectProps(tree, w, {"assign", "widget"}, 1)
\* Widget::view_stream: the watch! properties
view_stream(tree, w) == SelectProps(tree, w, {"watch"}, 1)
\* Widget::connect_stream: the signal connections
connect_stream(tree, w) == SelectProps(tree, w, {"connect"}, 1)
\* Widget::track_stream: the track! properties
track_stream(tree, w) == SelectProps(tree, w, {"track"}, 1)
\* Widget::component_stream
component_stream(tree, w) == SelectProps(tree, w, {"component"}, 1)
\* Widget::connect_component_stream
connect_component_stream(tree, w) == SelectProps(tree, w, {"connect_component"}, 1)

EmptyStreams ==
    [struct_stream |-> <<>>, init_stream |-> <<>>, return_stream |-> <<>>,
     property_stream |-> <<>>, view_stream |-> <<>>, connect_stream |-> <<>>,
     track_stream |-> <<>>, component_stream |-> <<>>,
     connect_component_stream |-> <<>>]

\* a loop body that adds the property assignments of a widget to init_stream,
\* right after the widget's construction
LoopBodyInterleaved(s, tree, w) ==
    [struct_stream |-> s.struct_stream \o <<Stmt("field", w, 0, 0, "")>>,
     init_stream |-> s.init_stream \o <<Stmt("let", w, 0, 0, "")>>
                        \o property_assign_stream(tree, w),
     return_stream |-> s.return_stream \o return_stream(tree, w),
     property_stream |-> s.property_stream,
     view_stream |-> s.view_stream \o view_stream(tree, w),
     connect_stream |-> s.connect_stream \o connect_stream(tree, w),
     track_stream |-> s.track_stream \o track_stream(tree, w),
     component_stream |-> s.component_stream \o component_stream(tree, w),
     connect_component_stream |->
        s.connect_component_stream \o connect_component_stream(tree, w)]

\* the body of `for widget in widget_list { ... }`
LoopBody(s, tree, w) ==
    [struct_stream |-> s.struct_stream \o <<Stmt("field", w, 0, 0, "")>>,
     init_stream |-> s.init_stream \o <<Stmt("let", w, 0, 0, "")>>,
     return_stream |-> s.return_stream \o return_stream(tree, w),
     property_stream |-> s.property_stream \o property_assign_stream(tree, w),
     view_stream |-> s.view_stream \o view_stream(tree, w),
     connect_stream |-> s.connect_stream \o connect_stream(tree, w),
     track_stream |-> s.track_stream \o track_stream(tree, w),
     component_stream |-> s.component_stream \o component_stream(tree, w),
     connect_component_stream |->
        s.connect_component_stream \o connect_component_stream(tree, w)]

\* the lifecycle blocks of Funcs
FuncNames == {"pre_init", "post_init", "pre_connect_components",
              "post_connect_components", "manual_view"}
FuncsChoices == { {}, {"post_init"}, FuncNames }

\* #pre_init, #post_init, ...: the user's block, spliced in when supplied
Splice(fs, name) == IF name \in fs THEN <<Stmt("user", 0, 0, 0, name)>> ELSE <<>>

\* init_view with #property_stream placed before #init_stream
InitViewBodyPropertiesFirst(s, fs) ==
    Splice(fs, "pre_init") \o s.property_stream \o s.init_stream
        \o s.connect_stream \o Splice(fs, "post_init")
        \o <<Stmt("Self", 0, 0, 0, "")>> \o s.return_stream

\* init_view with #post_init placed before #connect_stream
InitViewBodyPostInitEarly(s, fs) ==
    Splice(fs, "pre_init") \o s.init_stream \o s.property_stream
        \o Splice(fs, "post_init") \o s.connect_stream
        \o <<Stmt("Self", 0, 0, 0, "")>> \o s.return_stream

\* fn init_view
InitViewBody(s, fs) ==
    Splice(fs, "pre_init") \o s.init_stream \o s.property_stream
        \o s.connect_stream \o Splice(fs, "post_init")
        \o <<Stmt("Self", 0, 0, 0, "")>> \o s.return_stream

\* fn connect_components
ConnectComponentsBody(s, fs) ==
    Splice(fs, "pre_connect_components") \o s.component_stream
        \o s.connect_component_stream \o Splice(fs, "post_connect_components")

\* view with #track_stream placed before #view_stream
ViewBodyTrackFirst(s, fs) ==
    Splice(fs, "manual_view") \o s.track_stream \o s.view_stream

\* view with #view_stream spliced in twice
ViewBodyTwice(s, fs) ==
    Splice(fs, "manual_view") \o s.view_stream \o s.view_stream \o s.track_stream

\* fn view
ViewBody(s, fs) ==
    Splice(fs, "manual_view") \o s.view_stream \o s.track_stream

\* let out = quote! { struct ...  impl ... }
Quote(s, fs, root, types) ==
    << [kind |-> "struct", fields |-> s.struct_stream],
       [kind |-> "impl", model |-> types.model, parent_model |-> types.parent_model,
        root |-> root, init_view |-> InitViewBody(s, fs),
        connect_components |-> ConnectComponentsBody(s, fs),
        view |-> ViewBody(s, fs)] >>

\* Error::new(span, message).to_compile_error()
CompileError(stage) == << [kind |-> "compile_error", stage |-> stage] >>

MacroInit ==
    /\ mpc = "attrs"
    /\ data = None
    /\ model_types = None
    /\ model_ty = None
    /\ widgets = None
    /\ funcs = None
    /\ widget_list = <<>>
    /\ next_widget = 1
    /\ streams = EmptyStreams
    /\ out = <<>>

Fail(stage) ==
    /\ out' = CompileError(stage)
    /\ mpc' = "done"

\* parse_macro_input!(attributes as Attrs)
ParseAttrs ==
    /\ mpc = "attrs"
    /\ \/ /\ mpc' = "item_impl"
          /\ UNCHANGED out
       \/ Fail("attrs")
    /\ UNCHANGED <<data, model_types, model_ty, widgets, funcs, widget_list,
                   next_widget, streams>>

\* parse_macro_input!(input as ItemImpl)
ParseItemImpl ==
    /\ mpc = "item_impl"
    /\ \/ \E args \in PathArgumentsSet :
            /\ data' = args
            /\ mpc' = "trait_generics"
            /\ UNCHANGED out
       \/ /\ data' = Err
          /\ Fail("item_impl")
    /\ UNCHANGED <<model_types, model_ty, widgets, funcs, widget_list,
                   next_widget, streams>>

\* a missing generic list treated as "no model": the types default and the
\* expansion goes on
TraitGenericsDefaulting ==
    /\ mpc = "trait_generics"
    /\ IF data.angle
       THEN /\ mpc' = "model_types"
            /\ UNCHANGED <<model_types, model_ty>>
       ELSE /\ mpc' = "macros"
            /\ model_types' = [model |-> 0, parent_model |-> 0]
            /\ model_ty' = Some(0)
    /\ UNCHANGED <<data, widgets, funcs, widget_list, next_widget, streams, out>>

\* let trait_generics = if let PathArguments::AngleBracketed(generics) = ...
\*     else { return Error::new(..).to_compile_error() }
TraitGenerics ==
    /\ mpc = "trait_generics"
    /\ IF data.angle
       THEN /\ mpc' = "model_types"
            /\ UNCHANGED out
       ELSE Fail("trait_generics")
    /\ UNCHANGED <<data, model_types, model_ty, widgets, funcs, widget_list,
                   next_widget, streams>>

\* the positions of the type arguments of a generic list, in order
TypePositions(args) == SetToSeq({i \in DOMAIN args : args[i] = "type"})

\* ModelTypes::new: the first two type arguments are the model and the parent
\* model; an error when the list holds fewer than two type arguments
ModelTypes_new(args) ==
    LET tys == TypePositions(args)
    IN  IF Len(tys) < 2 THEN Err
        ELSE [model |-> tys[1], parent_model |-> tys[2]]

\* let ModelTypes { model, parent_model } = match ModelTypes::new(trait_generics)
ModelTypesNew ==
    /\ mpc = "model_types"
    /\ model_types' = ModelTypes_new(data.args)
    /\ IF model_types' = Err
       THEN Fail("model_types")
       ELSE /\ mpc' = "model_ty"
            /\ UNCHANGED out
    /\ UNCHANGED <<data, model_ty, widgets, funcs, widget_list, next_widget, streams>>

\* let model_ty_opt = ... angle_args.args.first() ...
model_ty_opt(path_args) ==
    IF path_args.angle
    THEN IF Len(path_args.args) > 0 /\ path_args.args[1] = "type" THEN Some(1) ELSE None
    ELSE None

\* let model_ty = if let Some(model_ty) = model_ty_opt { .. } else { return .. }
ModelTy ==
    /\ mpc = "model_ty"
    /\ IF model_ty_opt(data) # None
       THEN /\ model_ty' = model_ty_opt(data)
            /\ mpc' = "macros"
            /\ UNCHANGED out
       ELSE /\ model_ty' = Err
            /\ Fail("model_ty")
    /\ UNCHANGED <<data, model_types, widgets, funcs, widget_list, next_widget,
                   streams>>

\* let Macros { widgets, additional_fields } = match Macros::new(..)
MacrosNew ==
    /\ mpc = "macros"
    /\ \/ \E tree \in WidgetTrees :
            /\ widgets' = tree
            /\ mpc' = "funcs"
            /\ UNCHANGED out
       \/ /\ widgets' = Err
          /\ Fail("macros")
    /\ UNCHANGED <<data, model_types, model_ty, funcs, widget_list, next_widget,
                   streams>>

\* an error of Funcs::new that is reported and does not end the expansion
FuncsNewContinuing ==
    /\ mpc = "funcs"
    /\ \/ \E fs \in FuncsChoices :
            /\ funcs' = Some(fs)
            /\ mpc' = "widget_list"
            /\ UNCHANGED out
       \/ /\ funcs' = Err
          /\ out' = CompileError("funcs")
          /\ mpc' = "widget_list"
    /\ UNCHANGED <<data, model_types, model_ty, widgets, widget_list, next_widget,
                   streams>>

\* let Funcs { pre_init, .. } = match Funcs::new(&data.funcs)
FuncsNew ==
    /\ mpc = "funcs"
    /\ \/ \E fs \in FuncsChoices :
            /\ funcs' = Some(fs)
            /\ mpc' = "widget_list"
            /\ UNCHANGED out
       \/ /\ funcs' = Err
          /\ Fail("funcs")
    /\ UNCHANGED <<data, model_types, model_ty, widgets, widget_list, next_widget,
                   streams>>

\* widgets.get_widget_list(&mut widget_list), and the nine empty streams
GetWidgetList ==
    /\ mpc = "widget_list"
    /\ widget_list' = get_widget_list(widgets, 1)
    /\ next_widget' = 1
    /\ streams' = EmptyStreams
    /\ mpc' = "loop"
    /\ UNCHANGED <<data, model_types, model_ty, widgets, funcs, out>>

\* one iteration of `for widget in widget_list`
EmitWidget ==
    /\ mpc = "loop"
    /\ next_widget <= Len(widget_list)
    /\ streams' = LoopBody(streams, widgets, widget_list[next_widget])
    /\ next_widget' = next_widget + 1
    /\ UNCHANGED <<mpc, data, model_types, model_ty, widgets, funcs, widget_list, out>>

\* let out = quote! { .. }; out.into()
QuoteOut ==
    /\ mpc = "loop"
    /\ next_widget > Len(widget_list)
    /\ out' = Quote(streams, funcs.some, 1, model_types)
    /\ mpc' = "done"
    /\ UNCHANGED <<data, model_types, model_ty, widgets, funcs, widget_list,
                   next_widget, streams>>



(***************************************************************************)
(* examples/actions.rs: the counter application.                           *)
(***************************************************************************)
U8Bits == 8                             \* counter: u8
U8Modulus == 2 ^ U8Bits
AppMsg == {"Increment", "Decrement"}

\* an update that saturates at the ends of the range instead of wrapping
update_saturating(c, msg) ==
    IF msg = "Increment"
    THEN (IF c + 1 > U8Modulus - 1 THEN U8Modulus - 1 ELSE c + 1)
    ELSE (IF c - 1 < 0 THEN 0 ELSE c - 1)

\* AppUpdate::update: wrapping_add(1) and wrapping_sub(1) on the u8 counter
update(c, msg) ==
    IF msg = "Increment" THEN (c + 1) % U8Modulus ELSE (c - 1) % U8Modulus

\* &format!("Counter: {}", model.counter)
format_counter(c) == <<"C","o","u","n","t","e","r",":"," ">> \o to_string(c)

\* the generated view of the example: its one watched property,
\* set_label: watch! { .. } of the gtk::Label
example_view(c) == format_counter(c)

\* AppModel::default(); whether init_view already sets the watched label is
\* not fixed by the source at hand: both texts are possible before the first
\* cycle
AppInit ==
    /\ counter = 0
    /\ label \in { <<>>, format_counter(0) }
    /\ cycles = 0
    /\ net = 0

\* one update cycle: update(msg), then view
UpdateCycle(msg) ==
    /\ cycles < MaxCycles
    /\ counter' = update(counter, msg)
    /\ label' = example_view(counter')
    /\ cycles' = cycles + 1
    /\ net' = net + (IF msg = "Increment" THEN 1 ELSE -1)

(***************************************************************************)
(* A generated component at run time: messages are handled one at a time,  *)
(* each by one update cycle that runs the generated view method.           *)
(***************************************************************************)
RECURSIVE EmitAll(_, _, _, _)
\* the whole loop `for widget in widget_list { ... }`
EmitAll(s, tree, list, i) ==
    IF i > Len(list) THEN s
    ELSE EmitAll(LoopBody(s, tree, list[i]), tree, list, i + 1)

\* the view method the macro generates for a tree
GeneratedView(tree, fs) ==
    ViewBody(EmitAll(EmptyStreams, tree, get_widget_list(tree, 1), 1), fs)

RunInit ==
    /\ rtree \in WidgetTreesUpTo(MaxRunWidgets)
    /\ \E fs \in {{}, FuncNames} : rview = GeneratedView(rtree, fs)
    /\ rpc = "idle"
    /\ vpos = 1
    /\ applied = <<>>
    /\ queue = 0
    /\ sent = 0
    /\ handled = 0
    /\ cyclesDone = 0

\* an external message (a click) is sent to the component
SendMsg ==
    /\ sent < MaxMsgs
    /\ sent' = sent + 1
    /\ queue' = queue + 1
    /\ UNCHANGED <<rtree, rview, rpc, vpos, applied, handled, cyclesDone>>

\* the next message is taken and the model updated; the view method starts
BeginCycle ==
    /\ rpc = "idle"
    /\ queue > 0
    /\ queue' = queue - 1
    /\ handled' = handled + 1
    /\ rpc' = "view"
    /\ vpos' = 1
    /\ applied' = <<>>
    /\ UNCHANGED <<rtree, rview, sent, cyclesDone>>

\* one statement of the view method runs: the user's manual_view block, a
\* watch update (always applied) or a track update (applied when its guard
\* holds)
ViewStep ==
    /\ rpc = "view"
    /\ vpos <= Len(rview)
    /\ vpos' = vpos + 1
    /\ \/ /\ rview[vpos].stmt = "watch"
          /\ applied' = Append(applied, rview[vpos])
       \/ /\ rview[vpos].stmt = "track"
          /\ \E guard \in BOOLEAN :
                applied' = IF guard THEN Append(applied, rview[vpos]) ELSE applied
       \/ /\ rview[vpos].stmt = "user"
          /\ UNCHANGED applied
    /\ UNCHANGED <<rtree, rview, rpc, queue, sent, handled, cyclesDone>>

\* the view method returns: the cycle is complete
EndCycle ==
    /\ rpc = "view"
    /\ vpos > Len(rview)
    /\ rpc' = "idle"
    /\ cyclesDone' = cyclesDone + 1
    /\ UNCHANGED <<rtree, rview, vpos, applied, queue, sent, handled>>

\* the number a string of decimal digits denotes
RECURSIVE DecimalValue(_)
DecimalValue(digits) ==
    IF digits = <<>> THEN 0
    ELSE 10 * DecimalValue(SubSeq(digits, 1, Len(digits) - 1))
            + ((CHOOSE d \in DOMAIN DigitChars : DigitChars[d] = digits[Len(digits)]) - 1)

\* C5: after every update cycle the label reads "Counter: n" for the current
\* 8-bit counter n, which is the number of Increments minus the number of
\* Decrements modulo 256: "Counter: 3" after three Increments from 0 and
\* "Counter: 0" after 256 Increments.
C5_LabelShowsCounter ==
    cycles > 0 =>
        /\ counter = net % 256
        /\ Len(label) \in 10 .. 12
        /\ SubSeq(label, 1, 9) = <<"C","o","u","n","t","e","r",":"," ">>
        /\ \A i \in 10 .. Len(label) : \E d \in DOMAIN DigitChars : DigitChars[d] = label[i]
        /\ DecimalValue(SubSeq(label, 10, Len(label))) = counter
        /\ Len(label) > 10 => label[10] # "0"
        /\ (cycles = 3 /\ net = 3) =>
                label = <<"C","o","u","n","t","e","r",":"," ","3">>
        /\ (cycles = 256 /\ net = 256) =>
                label = <<"C","o","u","n","t","e","r",":"," ","0">>

\* 256 Increment cycles from 0: the counter has wrapped around
C5_Witness ==
    /\ cycles = 256 /\ net = 256
    /\ counter = 0
    /\ label = <<"C","o","u","n","t","e","r",":"," ","0">>

\* the watch! properties of the tree, each a pair <<widget, property>>
WatchedProperties ==
    UNION { { <<w, i>> : i \in { k \in DOMAIN Properties(rtree, w) :
                                    Properties(rtree, w)[k].kind = "watch" } } :
            w \in 1 .. rtree.n }
\* how often the update of a watched property ran in the cycle
TimesApplied(w, i) ==
    Cardinality({k \in DOMAIN applied :
        applied[k].stmt = "watch" /\ applied[k].widget = w /\ applied[k].prop = i})

\* C6: every message sent is handled by exactly one update cycle, a cycle ends
\* before the next message is taken, and in every completed cycle each watched
\* property of the tree was recomputed and reassigned exactly once.
C6_OneCyclePerMessage ==
    /\ sent = queue + handled
    /\ handled = cyclesDone + (IF rpc = "view" THEN 1 ELSE 0)
    /\ \A p \in WatchedProperties : TimesApplied(p[1], p[2]) <= 1
    /\ (rpc = "idle" /\ cyclesDone > 0) =>
            \A p \in WatchedProperties : TimesApplied(p[1], p[2]) = 1

\* two cycles completed for a tree with watched properties on two widgets
C6_Witness ==
    /\ rpc = "idle" /\ cyclesDone = 2 /\ queue = 1
    /\ \E p, q \in WatchedProperties :
            p[1] # q[1] /\ TimesApplied(p[1], p[2]) = 1 /\ TimesApplied(q[1], q[2]) = 1

(***************************************************************************)
(* The specifications.                                                     *)
(***************************************************************************)
IdentIdle == COUNTER = 0 /\ calls = 0 /\ remembered = None /\ last = None
ConcIdle ==
    /\ cCOUNTER = 0 /\ tpc = <<>> /\ tval = <<>> /\ tidents = <<>>
    /\ observed = <<>> /\ returned = <<>>
MacroIdle ==
    /\ mpc = "off" /\ data = None /\ model_types = None /\ model_ty = None
    /\ widgets = None /\ funcs = None /\ widget_list = <<>> /\ next_widget = 1
    /\ streams = EmptyStreams /\ out = <<>>

AppIdle == counter = 0 /\ label = <<>> /\ cycles = 0 /\ net = 0
RunIdle ==
    /\ rtree = None /\ rview = <<>> /\ rpc = "off" /\ vpos = 1 /\ applied = <<>>
    /\ queue = 0 /\ sent = 0 /\ handled = 0 /\ cyclesDone = 0

\* sequential calls of the identifier generator
InitIdent == IdentInit /\ ConcIdle /\ MacroIdle /\ AppIdle /\ RunIdle
NextIdent ==
    \E idents \in FragmentLists :
        Call(idents) /\ UNCHANGED <<concVars, macroVars, appVars, runVars>>
SpecIdent == InitIdent /\ [][NextIdent]_vars

\* concurrent calls of the identifier generator
InitConc == ConcInit /\ IdentIdle /\ MacroIdle /\ AppIdle /\ RunIdle
NextConc ==
    \/ \E t \in Threads, idents \in FragmentLists :
          FetchAdd(t, idents) /\ UNCHANGED <<identVars, macroVars, appVars, runVars>>
    \/ \E t \in Threads :
          BuildName(t) /\ UNCHANGED <<identVars, macroVars, appVars, runVars>>
SpecConc == InitConc /\ [][NextConc]_vars

\* one expansion of the widget macro
InitMacro == MacroInit /\ IdentIdle /\ ConcIdle /\ AppIdle /\ RunIdle
NextMacro ==
    \/ ParseAttrs /\ UNCHANGED <<identVars, concVars, appVars, runVars>>
    \/ ParseItemImpl /\ UNCHANGED <<identVars, concVars, appVars, runVars>>
    \/ TraitGenerics /\ UNCHANGED <<identVars, concVars, appVars, runVars>>
    \/ ModelTypesNew /\ UNCHANGED <<identVars, concVars, appVars, runVars>>
    \/ ModelTy /\ UNCHANGED <<identVars, concVars, appVars, runVars>>
    \/ MacrosNew /\ UNCHANGED <<identVars, concVars, appVars, runVars>>
    \/ FuncsNew /\ UNCHANGED <<identVars, concVars, appVars, runVars>>
    \/ GetWidgetList /\ UNCHANGED <<identVars, concVars, appVars, runVars>>
    \/ EmitWidget /\ UNCHANGED <<identVars, concVars, appVars, runVars>>
    \/ QuoteOut /\ UNCHANGED <<identVars, concVars, appVars, runVars>>
SpecMacro == InitMacro /\ [][NextMacro]_vars

\* the counter application, one update cycle per message
InitCounter == AppInit /\ IdentIdle /\ ConcIdle /\ MacroIdle /\ RunIdle
NextCounter ==
    \E msg \in AppMsg :
        UpdateCycle(msg) /\ UNCHANGED <<identVars, concVars, macroVars, runVars>>
SpecCounter == InitCounter /\ [][NextCounter]_vars

\* a generated component handling messages
InitRun == RunInit /\ IdentIdle /\ ConcIdle /\ MacroIdle /\ AppIdle
NextRun ==
    \/ SendMsg /\ UNCHANGED <<identVars, concVars, macroVars, appVars>>
    \/ BeginCycle /\ UNCHANGED <<identVars, concVars, macroVars, appVars>>
    \/ ViewStep /\ UNCHANGED <<identVars, concVars, macroVars, appVars>>
    \/ EndCycle /\ UNCHANGED <<identVars, concVars, macroVars, appVars>>
SpecRun == InitRun /\ [][NextRun]_vars

(***************************************************************************)
(* Properties of the macro's output.                                       *)
(***************************************************************************)
\* the expansion ended with the generated struct and trait implementation
Generated == mpc = "done" /\ Len(out) = 2 /\ out[2].kind = "impl"
InitView == out[2].init_view
ConnectComponents == out[2].connect_components
View == out[2].view
IsLet(s, w) == s.stmt = "let" /\ s.widget = w
IsAttach(s) == s.stmt = "widget"
ParsedTrait == data # None /\ data # Err
NumTypeArgs == Cardinality({i \in DOMAIN data.args : data.args[i] = "type"})
ListIndex(w) == CHOOSE k \in DOMAIN widget_list : widget_list[k] = w

\* C2: in the generated init_view every widget is constructed exactly once,
\* and its construction comes strictly before each of its property
\* assignments, before its attachment into its parent, before its signal
\* connections and before the construction of each of its children.
C2_ConstructionFirst ==
    Generated =>
        \A w \in 1 .. widgets.n :
            /\ Cardinality({i \in DOMAIN InitView : IsLet(InitView[i], w)}) = 1
            /\ w # 1 => \E j \in DOMAIN InitView :
                            IsAttach(InitView[j]) /\ InitView[j].child = w
            /\ \A i, j \in DOMAIN InitView :
                 IsLet(InitView[i], w) =>
                    /\ (InitView[j].stmt \in {"assign", "connect"}
                            /\ InitView[j].widget = w) => i < j
                    /\ (IsAttach(InitView[j]) /\ InitView[j].child = w) => i < j
                    /\ (InitView[j].stmt = "let" /\ InitView[j].widget # 1
                            /\ widgets.parent[InitView[j].widget] = w) => i < j

\* a chain of three widgets whose flattened order differs from their numbering,
\* with assignments, connections and attachments in the output
C2_Witness ==
    /\ Generated
    /\ widgets.n = 3 /\ widgets.parent[2] = 3 /\ widgets.parent[3] = 1
    /\ widget_list = <<1, 3, 2>>
    /\ \E j \in DOMAIN InitView : InitView[j].stmt = "assign" /\ InitView[j].widget = 2
    /\ \E j \in DOMAIN InitView : InitView[j].stmt = "connect" /\ InitView[j].widget = 2
    /\ \E j \in DOMAIN InitView : IsAttach(InitView[j]) /\ InitView[j].child = 2

\* the five failures of the stages between parsing and emission
TraitWithoutGenerics == ParsedTrait /\ ~data.angle /\ mpc # "trait_generics"
StageFailed ==
    \/ TraitWithoutGenerics
    \/ model_types = Err
    \/ model_ty = Err
    \/ widgets = Err
    \/ funcs = Err

\* C3: when a stage of the macro fails, the macro ends there: its output is
\* exactly one compile error, no part of the struct or of the implementation,
\* and no emitter has run (the widget list and the streams are untouched).
C3_FailureEmitsOnlyError ==
    StageFailed =>
        /\ mpc = "done"
        /\ Len(out) = 1
        /\ out[1].kind = "compile_error"
        /\ widget_list = <<>>
        /\ streams = EmptyStreams

\* the last stage that can fail, Funcs::new, fails after a tree was parsed
C3_Witness ==
    /\ mpc = "done"
    /\ funcs = Err
    /\ widgets # Err /\ widgets # None /\ widgets.n = MaxWidgets
    /\ out = CompileError("funcs")

\* C4: a trait reference with no generic list, an empty list or fewer than two
\* type arguments fails with a generic-argument error and resolves no model
\* type; the expansion succeeds only with at least two type arguments, the
\* first being the model and the second the parent model.
C4_GenericArguments ==
    /\ TraitWithoutGenerics =>
          /\ out = CompileError("trait_generics")
          /\ model_types = None /\ model_ty = None
    /\ (ParsedTrait /\ data.angle /\ NumTypeArgs < 2
            /\ mpc \notin {"trait_generics", "model_types"}) =>
          /\ out = CompileError("model_types")
          /\ model_types = Err /\ model_ty = None
    /\ (mpc \notin {"attrs", "item_impl", "trait_generics", "model_types", "model_ty"}
            /\ (mpc # "done" \/ Generated)) =>
          /\ data.angle /\ NumTypeArgs >= 2
          /\ data.args[model_types.model] = "type"
          /\ data.args[model_types.parent_model] = "type"
          /\ model_types.model < model_types.parent_model
          /\ \A i \in 1 .. (model_types.parent_model - 1) :
                i # model_types.model => data.args[i] # "type"

\* a list with exactly one type argument is refused
C4_Witness ==
    /\ mpc = "done"
    /\ ParsedTrait /\ data.angle /\ data.args = <<"type">>
    /\ out = CompileError("model_types")

\* C8 as claimed: in view, the update code of any reactive property (watch or
\* track) of a widget comes before the update code of any reactive property of
\* a widget that follows it in the flattened list.
C8_TreeOrderAcrossKinds ==
    Generated =>
        \A i, j \in DOMAIN View :
            (/\ View[i].stmt \in {"watch", "track"}
             /\ View[j].stmt \in {"watch", "track"}
             /\ ListIndex(View[i].widget) < ListIndex(View[j].widget)) => i < j

\* C8, amended: in view, the watch updates follow tree order among themselves
\* and the track updates follow tree order among themselves, and every watch
\* update comes before every track update, whichever widgets own them.
C8_TreeOrderWithinKind ==
    Generated =>
        \A i, j \in DOMAIN View :
            /\ (/\ View[i].stmt \in {"watch", "track"}
                /\ View[i].stmt = View[j].stmt
                /\ ListIndex(View[i].widget) < ListIndex(View[j].widget)) => i < j
            /\ (View[i].stmt = "watch" /\ View[j].stmt = "track") => i < j

\* a widget with a track property precedes a widget with a watch property
C8_Witness ==
    /\ Generated
    /\ \E i, j \in DOMAIN View :
         /\ View[i].stmt = "watch" /\ View[j].stmt = "track"
         /\ ListIndex(View[j].widget) < ListIndex(View[i].widget)
    /\ \E i, j \in DOMAIN View :
         /\ View[i].stmt = "watch" /\ View[j].stmt = "watch"
         /\ View[i].widget # View[j].widget

IsUser(s, name) == s.stmt = "user" /\ s.arg = name

\* C10: the user's blocks sit at fixed places: pre_init before every
\* construction; post_init after every construction (so every widget name is
\* in scope), every property assignment, every attachment and every signal
\* connection, and before the struct is built; pre_connect_components before
\* and post_connect_components after all component statements; manual_view
\* before all watch and track code.
C10_LifecycleBlocks ==
    Generated =>
        /\ \A name \in funcs.some :
              Cardinality({i \in DOMAIN InitView : IsUser(InitView[i], name)}
                  \cup {i \in DOMAIN ConnectComponents : IsUser(ConnectComponents[i], name)}
                  \cup {i \in DOMAIN View : IsUser(View[i], name)}) = 1
        /\ \A i, j \in DOMAIN InitView :
              /\ (IsUser(InitView[i], "pre_init") /\ i # j) => i < j
              /\ (IsUser(InitView[i], "post_init")
                    /\ InitView[j].stmt \in {"let", "assign", "widget", "connect"}) => j < i
              /\ (IsUser(InitView[i], "post_init")
                    /\ InitView[j].stmt \in {"Self", "return_field"}) => i < j
        /\ "post_init" \in funcs.some =>
              \A w \in 1 .. widgets.n : \E i, j \in DOMAIN InitView :
                  IsLet(InitView[i], w) /\ IsUser(InitView[j], "post_init") /\ i < j
        /\ \A i, j \in DOMAIN ConnectComponents :
              /\ (IsUser(ConnectComponents[i], "pre_connect_components") /\ i # j) => i < j
              /\ (IsUser(ConnectComponents[i], "post_connect_components") /\ i # j) => j < i
        /\ \A i, j \in DOMAIN View :
              (IsUser(View[i], "manual_view") /\ i # j) => i < j

\* all five blocks supplied, with constructions, connections, component
\* statements and reactive code around them
C10_Witness ==
    /\ Generated
    /\ funcs.some = FuncNames
    /\ widgets.n = MaxWidgets
    /\ \E i \in DOMAIN InitView : InitView[i].stmt = "connect"
    /\ \E i \in DOMAIN ConnectComponents : ConnectComponents[i].stmt = "component"
    /\ \E i \in DOMAIN ConnectComponents : ConnectComponents[i].stmt = "connect_component"
    /\ \E i \in DOMAIN View : View[i].stmt = "watch"
    /\ \E i \in DOMAIN View : View[i].stmt = "track"

====
